---- MODULE Spec2Model ----
(***************************************************************************)
(* Model of lsst.ts.ess.sensors.CommandHandler (command_handler.py): the   *)
(* configure / start / stop command protocol, the device factory and the   *)
(* device list it maintains.  One handle_command invocation is a task that *)
(* runs atomically between its suspension points (await device.open(),     *)
(* await device.close()).                                                  *)
(***************************************************************************)
EXTENDS Integers, Sequences, FiniteSets, TLC

\* ------------------------------------------------------------------ bounds
\* Longest device list of a configuration document that is submitted.
MaxDevices == 2
\* Most devices that are open without being in the device list when a start
\* is issued.
MaxLeaked == 0
\* Most invocations that have ended when an overlapping call is made.
MaxEnded == 3

\* --------------------------------------------------------------- constants
\* Key.*, DeviceType.*, SensorType.*, Command.*, ResponseCode.* (constants.py,
\* response_code.py) are kept symbolic.
OK == "OK"
INVALID_CONFIGURATION == "INVALID_CONFIGURATION"
ALREADY_STARTED == "ALREADY_STARTED"
NOT_CONFIGURED == "NOT_CONFIGURED"
NOT_STARTED == "NOT_STARTED"

CONFIGURE == "configure"
START == "start"
STOP == "stop"
\* A command name that is not a key of dispatch_dict.
UNKNOWN == "unknown"

\* Variant: simulation mode 2 is valid too.
valid_simulation_modes_wider == {0, 1, 2}

valid_simulation_modes == {0, 1}

required_keys == {"name", "device_type", "sensor_type"}

\* ------------------------------------------------- configuration documents
\* A device descriptor is a dict: `keys` is the set of keys it carries, the
\* other fields are the values of those keys (a placeholder when absent).
FtdiHx85a ==
    [keys |-> {"name", "device_type", "sensor_type", "ftdi_id"},
     name |-> "a", device_type |-> "FTDI", sensor_type |-> "HX85A",
     channels |-> 0]

SerialTemperature ==
    [keys |-> {"name", "device_type", "sensor_type", "serial_port", "channels"},
     name |-> "b", device_type |-> "SERIAL", sensor_type |-> "TEMPERATURE",
     channels |-> 4]

NoSensorType ==
    [keys |-> {"name", "device_type", "ftdi_id"},
     name |-> "c", device_type |-> "FTDI", sensor_type |-> "",
     channels |-> 0]

UnknownSensor ==
    [keys |-> {"name", "device_type", "sensor_type", "ftdi_id"},
     name |-> "d", device_type |-> "FTDI", sensor_type |-> "OTHER",
     channels |-> 0]

Descriptors == {FtdiHx85a, SerialTemperature, NoSensorType}

SeqsUpTo(S, n) == UNION {[1..k -> S] : k \in 0..n}

\* The value None of self._configuration.
None == [is_none |-> TRUE, keys |-> {}, devices |-> <<>>]

\* The documents a caller submits: {}, {"devices": [...]} over Descriptors, and
\* one whose only descriptor has a sensor type _get_sensor does not know.
EmptyDocument == [is_none |-> FALSE, keys |-> {}, devices |-> <<>>]

\* Device lists whose descriptors have pairwise different names.
DeviceLists ==
    {ds \in SeqsUpTo(Descriptors, MaxDevices) :
        \A j, k \in 1..Len(ds) : j # k => ds[j].name # ds[k].name}

Documents ==
    {EmptyDocument} \cup
    {[is_none |-> FALSE, keys |-> {"devices"}, devices |-> ds] :
        ds \in DeviceLists \cup {<<UnknownSensor>>}}

\* Python truthiness of an Optional[dict]: None and {} are false.
Truthy(configuration) == ~configuration.is_none /\ configuration.keys # {}

\* jsonschema.validate(configuration, CONFIG_JSCHEMA) raises no error.
SchemaAccepts(document) ==
    /\ "devices" \in document.keys
    /\ \A k \in 1..Len(document.devices) :
           required_keys \subseteq document.devices[k].keys

\* The response code _validate_configuration raises, or OK.
validate_configuration(document) ==
    IF SchemaAccepts(document) THEN OK ELSE INVALID_CONFIGURATION

\* ---------------------------------------------------------- device factory
\* Result of a constructor call: the object, or the error that was raised.
Raised(error) == [raised |-> TRUE, error |-> error, value |-> [type |-> "", num_channels |-> 0]]
Returned(value) == [raised |-> FALSE, error |-> "", value |-> value]

\* Variant: a TemperatureSensor is built with three channels whatever the
\* descriptor says.
get_sensor_three_channels(dc) ==
    IF "sensor_type" \notin dc.keys THEN Raised("KeyError")
    ELSE IF dc.sensor_type = "HX85A" THEN Returned([type |-> "Hx85aSensor", num_channels |-> 3])
    ELSE IF dc.sensor_type = "HX85BA" THEN Returned([type |-> "Hx85baSensor", num_channels |-> 3])
    ELSE IF dc.sensor_type = "TEMPERATURE" THEN
        IF "channels" \in dc.keys
        THEN Returned([type |-> "TemperatureSensor", num_channels |-> 3])
        ELSE Raised("KeyError")
    ELSE IF dc.sensor_type = "WIND" THEN Returned([type |-> "WindSensor", num_channels |-> 2])
    ELSE Raised("RuntimeError")

get_sensor(dc) ==
    IF "sensor_type" \notin dc.keys THEN Raised("KeyError")
    ELSE IF dc.sensor_type = "HX85A" THEN Returned([type |-> "Hx85aSensor", num_channels |-> 3])
    ELSE IF dc.sensor_type = "HX85BA" THEN Returned([type |-> "Hx85baSensor", num_channels |-> 3])
    ELSE IF dc.sensor_type = "TEMPERATURE" THEN
        IF "channels" \in dc.keys
        THEN Returned([type |-> "TemperatureSensor", num_channels |-> dc.channels])
        ELSE Raised("KeyError")
    ELSE IF dc.sensor_type = "WIND" THEN Returned([type |-> "WindSensor", num_channels |-> 2])
    ELSE Raised("RuntimeError")

\* Variant: a SERIAL descriptor gets the serial-transport device on any host.
DeviceClassAnyHost(dc, simulation, onAarch64) ==
    IF get_sensor(dc).raised THEN Raised(get_sensor(dc).error)
    ELSE IF simulation = 1 THEN
        IF "ftdi_id" \in dc.keys THEN Returned("MockDevice") ELSE Raised("KeyError")
    ELSE IF dc.device_type = "FTDI" THEN
        IF "ftdi_id" \in dc.keys THEN Returned("VcpFtdi") ELSE Raised("KeyError")
    ELSE IF dc.device_type = "SERIAL" THEN
        IF "serial_port" \in dc.keys THEN Returned("RpiSerialHat") ELSE Raised("KeyError")
    ELSE Raised("RuntimeError")

\* The class _get_device instantiates, or the error it raises.
DeviceClass(dc, simulation, onAarch64) ==
    IF get_sensor(dc).raised THEN Raised(get_sensor(dc).error)
    ELSE IF simulation = 1 THEN
        IF "ftdi_id" \in dc.keys THEN Returned("MockDevice") ELSE Raised("KeyError")
    ELSE IF dc.device_type = "FTDI" THEN
        IF "ftdi_id" \in dc.keys THEN Returned("VcpFtdi") ELSE Raised("KeyError")
    ELSE IF dc.device_type = "SERIAL" /\ onAarch64 THEN
        IF "serial_port" \in dc.keys THEN Returned("RpiSerialHat") ELSE Raised("KeyError")
    ELSE Raised("RuntimeError")

NoDevice == [id |-> 0, name |-> "", class |-> "", sensor |-> [type |-> "", num_channels |-> 0]]

\* _get_device: a new device object (identity id) bound to its sensor.
get_device(dc, simulation, onAarch64, id) ==
    IF DeviceClass(dc, simulation, onAarch64).raised
    THEN [raised |-> TRUE, error |-> DeviceClass(dc, simulation, onAarch64).error,
          value |-> NoDevice]
    ELSE [raised |-> FALSE, error |-> "",
          value |-> [id |-> id, name |-> dc.name,
                     class |-> DeviceClass(dc, simulation, onAarch64).value,
                     sensor |-> get_sensor(dc).value]]

\* ------------------------------------------------------------------- state
VARIABLES
    simulation_mode,   \* self.simulation_mode
    aarch64,           \* "aarch64" in platform.platform()
    configuration,     \* self._configuration
    started,           \* self._started
    devices,           \* self._devices
    open_devices,      \* the devices that are open, in the order they were opened
    tasks,             \* the handle_command invocations in flight
    hist,              \* the most recent finished invocations, oldest first
    handler,           \* "new" before __init__ ran, then "ready" or "ValueError"
    factory            \* one _get_device call made on its own, and what came of it

vars == <<simulation_mode, aarch64, configuration, started, devices,
          open_devices, tasks, hist, handler, factory>>

\* The handle_command invocations one handler can have in flight.
Slots == {1, 2}

Snapshot(c, st, devs) == [configuration |-> c, started |-> st, devices |-> devs]

IdleTask ==
    [pc |-> "idle", command |-> "", arg |-> None, device_configurations |-> <<>>,
     i |-> 0, device |-> NoDevice, pre |-> Snapshot(None, FALSE, <<>>),
     opened |-> <<>>, closed |-> <<>>, resp |-> <<>>]

\* A handle_command(command, **kwargs) call that has just been made.
NewTask(command, arg) ==
    [IdleTask EXCEPT !.pc = "running", !.command = command, !.arg = arg,
                     !.pre = Snapshot(configuration, started, devices)]

Idle == \A s \in Slots : tasks[s].pc = "idle"

\* A new handle_command call runs in the lowest slot that is free.
Calls(s) ==
    /\ tasks[s].pc = "idle"
    /\ \A x \in Slots : x < s => tasks[x].pc # "idle"

Ids(devs) == {devs[k].id : k \in 1..Len(devs)}

\* Identity of a newly constructed object: one no live object has.
FreshId(used) ==
    CHOOSE n \in 0..Cardinality(used) :
        n \notin used /\ \A m \in 0..(n - 1) : m \in used

Awaited == {tasks[s].device.id : s \in {x \in Slots : tasks[x].pc \in {"open", "close"}}}

\* What is remembered of an invocation once a later one has finished.
Older(r) ==
    [command |-> r.command, resp |-> r.resp, error |-> r.error,
     accepted |-> SchemaAccepts(r.arg),
     began_started |-> r.pre.started,
     began_configured |-> ~r.pre.configuration.is_none,
     stored |-> r.post.configuration]

\* What is remembered of an invocation once two later ones have finished.
Oldest(o) == [command |-> o.command, resp |-> o.resp, error |-> o.error]

\* The history after invocation r finished: r in full, its predecessor as
\* Older, the one before that as Oldest.
Record(h, r) ==
    IF h = <<>> THEN <<r>>
    ELSE IF Len(h) = 1 THEN <<Older(h[1]), r>>
    ELSE <<Oldest(h[Len(h) - 1]), Older(h[Len(h)]), r>>

\* No _get_device call is made on its own.
NoFactoryCall ==
    [pc |-> "none", dc |-> FtdiHx85a, device |-> NoDevice, error |-> "",
     in_error_state |-> FALSE, reply |-> <<>>]

Init ==
    /\ simulation_mode \in valid_simulation_modes
    /\ aarch64 \in BOOLEAN
    /\ configuration = None
    /\ started = FALSE
    /\ devices = <<>>
    /\ open_devices = <<>>
    /\ tasks = [s \in Slots |-> IdleTask]
    /\ hist = <<>>
    /\ handler = "ready"
    /\ factory = NoFactoryCall

\* ------------------------------------------------ how handle_command ends
\* The invocation of slot s ends: `resp` is what it passed to the callback,
\* `error` the error that propagated to its caller ("" when none did).
Finish(s, t, resp, error, c, st, devs, od) ==
    /\ configuration' = c
    /\ started' = st
    /\ devices' = devs
    /\ open_devices' = od
    /\ tasks' = [tasks EXCEPT ![s] = IdleTask]
    /\ hist' = Record(hist,
                 [command |-> t.command, arg |-> t.arg, pre |-> t.pre,
                  post |-> Snapshot(c, st, devs),
                  opened |-> t.opened, closed |-> t.closed,
                  resp |-> t.resp \o resp, error |-> error])
    /\ UNCHANGED <<simulation_mode, aarch64, handler, factory>>

\* Variant: the callback is called twice with the response.
ResponseTwice(code) == <<code, code>>

\* What handle_command passes to the callback for a result of func.
Response(code) == <<code>>

\* func returned: response OK.
Return(s, t, c, st, devs, od) == Finish(s, t, Response(OK), "", c, st, devs, od)

\* func raised a CommandError: response e.response_code.
RaiseCommandError(s, t, code, c, st, devs, od) ==
    Finish(s, t, Response(code), "", c, st, devs, od)

\* Variant: handle_command catches every error and answers with a code.
RaiseErrorAnswered(s, t, error, c, st, devs, od) ==
    Finish(s, t, Response(error), error, c, st, devs, od)

\* func raised any other error: it propagates, the callback is not called.
RaiseError(s, t, error, c, st, devs, od) == Finish(s, t, <<>>, error, c, st, devs, od)

\* The invocation of slot s suspends at an await on `device`.
Suspend(s, t, pc, device, st, devs, od) ==
    /\ started' = st
    /\ devices' = devs
    /\ open_devices' = od
    /\ tasks' = [tasks EXCEPT ![s] = [t EXCEPT !.pc = pc, !.device = device]]
    /\ UNCHANGED <<simulation_mode, aarch64, configuration, hist, handler, factory>>

\* ---------------------------------------------------------------- commands
\* Variant: configure validates the document before it looks at self._started.
configure_outcome_validates_first(isStarted, document) ==
    IF validate_configuration(document) # OK THEN INVALID_CONFIGURATION
    ELSE IF isStarted THEN ALREADY_STARTED ELSE OK

\* The response code configure raises, or OK.
configure_outcome(isStarted, document) ==
    IF isStarted THEN ALREADY_STARTED ELSE validate_configuration(document)

\* Variant: configure stores the document before it checks anything.
configure_stores_unchecked(code, stored, document) == document

\* Variant: configure keeps a configuration that is already stored.
configure_keeps_first(code, stored, document) ==
    IF code = OK /\ stored.is_none THEN document ELSE stored

\* The value of self._configuration when configure ends.
configure_stores(code, stored, document) == IF code = OK THEN document ELSE stored

\* handle_command("configure", configuration=document)
configure(s, document) ==
    /\ Calls(s)
    /\ LET t == NewTask(CONFIGURE, document)
           code == configure_outcome(started, document)
           c == configure_stores(code, configuration, document)
       IN IF code = OK
          THEN Return(s, t, c, started, devices, open_devices)
          ELSE RaiseCommandError(s, t, code, c, started, devices, open_devices)

\* connect_devices, from iteration t.i of its loop on.
connect_devices(s, t, devs, od) ==
    IF t.i > Len(t.device_configurations)
    THEN Return(s, t, configuration, TRUE, devs, od)
    ELSE LET r == get_device(t.device_configurations[t.i], simulation_mode, aarch64,
                             FreshId(Ids(devs) \cup Ids(od) \cup Awaited))
         IN IF r.raised
            THEN RaiseError(s, t, r.error, configuration, started, devs, od)
            ELSE Suspend(s, t, "open", r.value, started, Append(devs, r.value), od)

\* Variant: start_sending_telemetry does not test self._configuration.
start_never_refused(stored) == FALSE

\* start_sending_telemetry raises NOT_CONFIGURED.
start_refused(stored) == ~Truthy(stored)

\* handle_command("start")
start_sending_telemetry(s) ==
    /\ Calls(s)
    /\ Cardinality(Ids(open_devices) \ Ids(devices)) <= MaxLeaked
    /\ LET t == NewTask(START, None)
       IN IF start_refused(configuration)
          THEN RaiseCommandError(s, t, NOT_CONFIGURED, configuration, started,
                                 devices, open_devices)
          ELSE connect_devices(s, [t EXCEPT !.device_configurations = configuration.devices,
                                            !.i = 1],
                               <<>>, open_devices)

\* await device.open() returns.
open_returns(s) ==
    /\ tasks[s].pc = "open"
    /\ LET t == tasks[s]
       IN connect_devices(s, [t EXCEPT !.opened = Append(t.opened, t.device),
                                       !.i = t.i + 1],
                          devices, Append(open_devices, t.device))

\* await device.open() raises.
open_raises(s) ==
    /\ tasks[s].pc = "open"
    /\ RaiseError(s, tasks[s], "OpenError", configuration, started, devices, open_devices)

\* Variant: self._devices.pop(0).
PopFirst(devs) == IF devs = <<>> THEN 0 ELSE 1

\* The index self._devices.pop(-1) removes.
PopIndex(devs) == Len(devs)

Remove(devs, k) == [j \in 1..(Len(devs) - 1) |-> IF j < k THEN devs[j] ELSE devs[j + 1]]

\* Variant: stop_sending_telemetry does not clear self._started.
close_devices_stays_started(s, t, st, devs, od) ==
    IF devs = <<>>
    THEN Return(s, t, configuration, TRUE, devs, od)
    ELSE Suspend(s, t, "close", devs[PopIndex(devs)], TRUE, Remove(devs, PopIndex(devs)), od)

\* Variant: stop forgets the stored configuration when it ends.
close_devices_forgets_configuration(s, t, st, devs, od) ==
    IF devs = <<>>
    THEN Return(s, t, None, st, devs, od)
    ELSE Suspend(s, t, "close", devs[PopIndex(devs)], st, Remove(devs, PopIndex(devs)), od)

\* Variant: stop clears self._started after the loop, not before it.
close_devices_clears_started_last(s, t, st, devs, od) ==
    IF devs = <<>>
    THEN Return(s, t, configuration, FALSE, devs, od)
    ELSE Suspend(s, t, "close", devs[PopIndex(devs)], TRUE, Remove(devs, PopIndex(devs)), od)

\* The while loop of stop_sending_telemetry, from its test on.
close_devices(s, t, st, devs, od) ==
    IF devs = <<>>
    THEN Return(s, t, configuration, st, devs, od)
    ELSE Suspend(s, t, "close", devs[PopIndex(devs)], st, Remove(devs, PopIndex(devs)), od)

\* Variant: stop_sending_telemetry does not test self._started.
stop_never_refused(isStarted) == FALSE

\* stop_sending_telemetry raises NOT_STARTED.
stop_refused(isStarted) == ~isStarted

\* handle_command("stop")
stop_sending_telemetry(s) ==
    /\ Calls(s)
    /\ LET t == NewTask(STOP, None)
       IN IF stop_refused(started)
          THEN RaiseCommandError(s, t, NOT_STARTED, configuration, started,
                                 devices, open_devices)
          ELSE close_devices(s, t, FALSE, devices, open_devices)

\* await device.close() returns.
close_returns(s) ==
    /\ tasks[s].pc = "close"
    /\ LET t == tasks[s]
       IN close_devices(s, [t EXCEPT !.closed = Append(t.closed, t.device)],
                        started, devices,
                        SelectSeq(open_devices, LAMBDA d : d # t.device))

\* await device.close() raises: the device is left open, or was released
\* before the error.
close_raises(s) ==
    /\ tasks[s].pc = "close"
    /\ \E od \in {open_devices, SelectSeq(open_devices, LAMBDA d : d # tasks[s].device)} :
           RaiseError(s, tasks[s], "CloseError", configuration, started, devices, od)

\* handle_command(command) with a command that dispatch_dict does not hold.
unknown_command(s) ==
    /\ Calls(s)
    /\ RaiseError(s, NewTask(UNKNOWN, None), "KeyError", configuration, started,
                  devices, open_devices)

\* The caller makes one call at a time: it awaits handle_command before it
\* calls it again.  Awaits of the call in flight end in between.
Next ==
    \E s \in Slots :
        \/ Idle /\ \E document \in Documents : configure(s, document)
        \/ Idle /\ start_sending_telemetry(s)
        \/ Idle /\ stop_sending_telemetry(s)
        \/ Idle /\ unknown_command(s)
        \/ open_returns(s)
        \/ open_raises(s)
        \/ close_returns(s)
        \/ close_raises(s)

Spec == Init /\ [][Next]_vars

\* ------------------------------------------------------- overlapping calls
\* The caller does not await handle_command before it calls it again: a call
\* is made while another is suspended at an await.  Calls are made until
\* MaxEnded invocations have ended.
NextConcurrent ==
    \E s \in Slots :
        \/ Len(hist) < MaxEnded /\ \E document \in Documents : configure(s, document)
        \/ Len(hist) < MaxEnded /\ start_sending_telemetry(s)
        \/ Len(hist) < MaxEnded /\ stop_sending_telemetry(s)
        \/ Len(hist) < MaxEnded /\ unknown_command(s)
        \/ open_returns(s)
        \/ open_raises(s)
        \/ close_returns(s)
        \/ close_raises(s)

SpecConcurrent == Init /\ [][NextConcurrent]_vars

\* ------------------------------------------------------------ construction
\* The simulation_mode arguments CommandHandler(...) is called with.
SimulationModeArguments == {-1, 0, 1, 2}

\* Before __init__ runs: simulation_mode is its argument, and the attributes
\* it has not assigned yet hold no particular value.
InitConstruct ==
    /\ simulation_mode \in SimulationModeArguments
    /\ aarch64 \in BOOLEAN
    /\ configuration \in {None, EmptyDocument}
    /\ started \in BOOLEAN
    /\ devices \in {<<>>, <<NoDevice>>}
    /\ open_devices = <<>>
    /\ tasks = [s \in Slots |-> IdleTask]
    /\ hist = <<>>
    /\ handler = "new"
    /\ factory = NoFactoryCall

\* CommandHandler.__init__(callback, simulation_mode)
construct ==
    /\ handler = "new"
    /\ IF simulation_mode \notin valid_simulation_modes
       THEN /\ handler' = "ValueError"
            /\ UNCHANGED <<configuration, started, devices>>
       ELSE /\ handler' = "ready"
            /\ configuration' = None
            /\ started' = FALSE
            /\ devices' = <<>>
    /\ UNCHANGED <<simulation_mode, aarch64, open_devices, tasks, hist, factory>>

\* Commands are issued on a handler that was constructed.
NextConstruct ==
    \/ construct
    \/ handler = "ready" /\ Next

SpecConstruct == InitConstruct /\ [][NextConstruct]_vars

\* ------------------------------------------- the device factory on its own
\* Descriptors that pass validation: every device type and sensor type tag,
\* one unknown tag of each included, with every choice of the optional keys.
FactoryDescriptors ==
    {dc \in [keys : {required_keys \cup extra : extra \in SUBSET {"ftdi_id", "serial_port", "channels"}},
             name : {"f"},
             device_type : {"FTDI", "SERIAL", "USB"},
             sensor_type : {"HX85A", "HX85BA", "TEMPERATURE", "WIND", "OTHER"},
             channels : {0, 4}] :
        "channels" \notin dc.keys => dc.channels = 0}

InitDevice ==
    /\ simulation_mode \in valid_simulation_modes
    /\ aarch64 \in BOOLEAN
    /\ configuration = None
    /\ started = FALSE
    /\ devices = <<>>
    /\ open_devices = <<>>
    /\ tasks = [s \in Slots |-> IdleTask]
    /\ hist = <<>>
    /\ handler = "ready"
    /\ \E dc \in FactoryDescriptors : factory = [NoFactoryCall EXCEPT !.pc = "input", !.dc = dc]

\* self._get_device(factory.dc)
call_get_device ==
    /\ factory.pc = "input"
    /\ LET r == get_device(factory.dc, simulation_mode, aarch64, FreshId({}))
       IN factory' = [factory EXCEPT !.pc = IF r.raised THEN "raised" ELSE "built",
                                     !.device = r.value, !.error = r.error]
    /\ UNCHANGED <<simulation_mode, aarch64, configuration, started, devices,
                   open_devices, tasks, hist, handler>>

\* The telemetry reply of one read of a device: name, timestamp, response
\* code, one value per channel of its sensor; a value is "nan" when the read
\* failed or the channel was missed.
Reply(device, in_error_state, missed_channels) ==
    <<device.name, "timestamp", IF in_error_state THEN "DEVICE_READ_ERROR" ELSE OK>> \o
    [i \in 1..device.sensor.num_channels |->
        IF in_error_state \/ i <= missed_channels THEN "nan" ELSE "value"]

\* The device the call built, once open, reads its sensor and reports.
device_reads ==
    /\ factory.pc \in {"built", "read"}
    /\ \E in_error_state \in BOOLEAN, missed_channels \in 0..factory.device.sensor.num_channels :
           factory' = [factory EXCEPT !.pc = "read", !.in_error_state = in_error_state,
                                     !.reply = Reply(factory.device, in_error_state,
                                                     missed_channels)]
    /\ UNCHANGED <<simulation_mode, aarch64, configuration, started, devices,
                   open_devices, tasks, hist, handler>>

NextDevice == call_get_device \/ device_reads

SpecDevice == InitDevice /\ [][NextDevice]_vars

\* ------------------------------------------------------ auxiliary notions
Last == hist[Len(hist)]
Prev == hist[Len(hist) - 1]
Prev2 == hist[Len(hist) - 2]

\* The most recent finished invocation was handle_command(command).
Handled(command) == hist # <<>> /\ Last.command = command

\* ... and the one before it was handle_command(before).
HandledAfter(before, command) ==
    Len(hist) >= 2 /\ Prev.command = before /\ Last.command = command

Reverse(q) == [k \in 1..Len(q) |-> q[Len(q) + 1 - k]]

IsPrefix(p, q) == Len(p) <= Len(q) /\ \A k \in 1..Len(p) : p[k] = q[k]

Names(q) == [k \in 1..Len(q) |-> q[k].name]

Position(q, x) == CHOOSE k \in 1..Len(q) : q[k] = x

Elements(q) == {q[k] : k \in 1..Len(q)}

\* The devices of devs that are open were opened in the order of devs.
InOpenOrder(devs, od) ==
    \A j, k \in 1..Len(devs) :
        (j < k /\ devs[j] \in Elements(od) /\ devs[k] \in Elements(od))
            => Position(od, devs[j]) < Position(od, devs[k])

\* The handler state did not change during invocation r.
Untouched(r) ==
    /\ r.post.configuration = r.pre.configuration
    /\ r.post.started = r.pre.started
    /\ r.post.devices = r.pre.devices

\* ------------------------------------------------------------------ claims

\* C1: whenever no command is in flight, started = FALSE implies an empty
\* device list and started = TRUE implies one device per descriptor of the
\* stored configuration.  The code breaks this when start or stop is aborted
\* by an error that is not a CommandError.
C1_StartedMatchesDeviceList ==
    Idle =>
        /\ ~started => devices = <<>>
        /\ started => Names(devices) = Names(configuration.devices)

\* C2: a start that is answered, issued while a configuration with K
\* descriptors is stored, leaves exactly K devices open: the K devices of the
\* device list, opened in the declared order, with started = TRUE.  The code
\* breaks this when the handler is already started: the devices of the
\* earlier start stay open.
C2_StartOpensExactlyTheConfiguredDevices ==
    (Idle /\ Handled(START) /\ Last.resp = <<OK>>) =>
        /\ started
        /\ devices = Last.opened
        /\ Names(devices) = Names(Last.pre.configuration.devices)
        /\ open_devices = devices

\* C3: a stop issued while started = TRUE closes the devices of the device
\* list one by one, most recently opened first, and when it completes it has
\* closed all of them, the device list is empty and started = FALSE.
C3_StopClosesInReverseOrder ==
    /\ (Idle /\ started) => InOpenOrder(devices, open_devices)
    /\ \A s \in Slots :
           tasks[s].command = STOP =>
               IsPrefix(tasks[s].closed, Reverse(tasks[s].pre.devices))
    /\ (Handled(STOP) /\ Last.pre.started) =>
           /\ IsPrefix(Last.closed, Reverse(Last.pre.devices))
           /\ Last.resp = <<OK>> =>
                  /\ Last.closed = Reverse(Last.pre.devices)
                  /\ Last.post.devices = <<>>
                  /\ ~Last.post.started

C3_Witness ==
    /\ Handled(STOP)
    /\ Last.resp = <<OK>>
    /\ Len(Last.closed) = 2
    /\ Last.closed[1] = Last.pre.devices[2]

\* C4: a configure issued while started = TRUE is answered ALREADY_STARTED
\* and leaves the stored configuration, the started flag and the device list
\* as they were.
C4_ConfigureWhileStartedIsRefused ==
    (Handled(CONFIGURE) /\ Last.pre.started) =>
        /\ Last.resp = <<ALREADY_STARTED>>
        /\ Last.error = ""
        /\ Untouched(Last)

C4_Witness ==
    /\ Handled(CONFIGURE)
    /\ Last.pre.started
    /\ Last.pre.devices # <<>>
    /\ \E document \in Documents :
           ~SchemaAccepts(document) /\ Last.arg = document

\* C5: a start issued while no configuration has ever been stored is
\* answered NOT_CONFIGURED, opens no device and leaves started = FALSE and
\* the device list empty.
C5_StartWithoutConfigurationIsRefused ==
    /\ \A s \in Slots :
           tasks[s].command = START => ~tasks[s].pre.configuration.is_none
    /\ (Handled(START) /\ Last.pre.configuration.is_none) =>
           /\ Last.resp = <<NOT_CONFIGURED>>
           /\ Last.error = ""
           /\ Last.opened = <<>>
           /\ ~Last.post.started
           /\ Last.post.devices = <<>>
           /\ Last.post.configuration.is_none

C5_Witness ==
    /\ Handled(START)
    /\ Last.pre.configuration.is_none
    /\ Last.resp = <<NOT_CONFIGURED>>

\* C6: a stop issued while started = FALSE is answered NOT_STARTED, closes
\* no device and leaves the stored configuration, the started flag and the
\* device list as they were.
C6_StopWhileNotStartedIsRefused ==
    /\ \A s \in Slots : tasks[s].command = STOP => tasks[s].pre.started
    /\ (Handled(STOP) /\ ~Last.pre.started) =>
           /\ Last.resp = <<NOT_STARTED>>
           /\ Last.error = ""
           /\ Last.closed = <<>>
           /\ Untouched(Last)

C6_Witness ==
    /\ Handled(STOP)
    /\ ~Last.pre.started
    /\ Last.pre.devices # <<>>
    /\ Last.resp = <<NOT_STARTED>>

\* C7 as stated: a configure whose document fails validation is answered
\* INVALID_CONFIGURATION and leaves the stored configuration as it was; if
\* none was stored, a start that follows is answered NOT_CONFIGURED.
C7_InvalidDocumentIsAnsweredInvalid ==
    /\ (Handled(CONFIGURE) /\ ~SchemaAccepts(Last.arg)) =>
           /\ Last.resp = <<INVALID_CONFIGURATION>>
           /\ Last.post.configuration = Last.pre.configuration
    /\ (HandledAfter(CONFIGURE, START) /\ ~Prev.accepted /\ ~Prev.began_configured) =>
           Last.resp = <<NOT_CONFIGURED>>

\* C7 as amended: a configure whose document fails validation is answered
\* INVALID_CONFIGURATION when started = FALSE and ALREADY_STARTED when
\* started = TRUE; either way the handler state, the stored configuration
\* included, is as it was, and if none was stored a start that follows is
\* answered NOT_CONFIGURED.
C7_InvalidDocumentIsNeverApplied ==
    /\ (Handled(CONFIGURE) /\ ~SchemaAccepts(Last.arg)) =>
           /\ Last.resp = <<IF Last.pre.started THEN ALREADY_STARTED
                            ELSE INVALID_CONFIGURATION>>
           /\ Last.error = ""
           /\ Untouched(Last)
    /\ (HandledAfter(CONFIGURE, START) /\ ~Prev.accepted /\ ~Prev.began_configured) =>
           /\ Prev.stored.is_none
           /\ Last.resp = <<NOT_CONFIGURED>>

C7_Witness ==
    /\ HandledAfter(CONFIGURE, START)
    /\ ~Prev.accepted
    /\ ~Prev.began_configured
    /\ Prev.resp = <<INVALID_CONFIGURATION>>
    /\ Last.resp = <<NOT_CONFIGURED>>

\* What C8 says of a start that follows an accepted configure: it opens
\* devices of the document that configure stored, in order, and no others.
StartOpensStoredDevicesOnly ==
    (HandledAfter(CONFIGURE, START) /\ Prev.resp = <<OK>>) =>
        /\ IsPrefix(Names(Last.opened), Names(Prev.stored.devices))
        /\ IsPrefix(Last.opened, Last.post.devices)
        /\ Last.resp = <<OK>> => Names(Last.post.devices) = Names(Prev.stored.devices)

\* C8 as stated: configure(A) followed by configure(B), A and B passing
\* validation, is answered OK both times and stores exactly B; a start that
\* follows opens devices of B only.
C8_SecondConfigureReplacesFirst ==
    /\ (HandledAfter(CONFIGURE, CONFIGURE) /\ Prev.accepted /\ SchemaAccepts(Last.arg)) =>
           /\ Prev.resp = <<OK>>
           /\ Last.resp = <<OK>>
           /\ Last.post.configuration = Last.arg
    /\ StartOpensStoredDevicesOnly

\* C8 as amended: configure(A) followed by configure(B), A and B passing
\* validation and the first issued while started = FALSE, is answered OK
\* both times and stores exactly B; a start that follows opens devices of B
\* only.
C8_SecondConfigureReplacesFirstBeforeStart ==
    /\ (HandledAfter(CONFIGURE, CONFIGURE) /\ Prev.accepted /\ SchemaAccepts(Last.arg)
            /\ ~Prev.began_started) =>
           /\ Prev.resp = <<OK>>
           /\ Last.resp = <<OK>>
           /\ Last.error = ""
           /\ Last.post.configuration = Last.arg
           /\ ~Last.post.started
    /\ (Handled(CONFIGURE) /\ Last.resp = <<OK>>) => Last.post.configuration = Last.arg
    /\ StartOpensStoredDevicesOnly

C8_Witness ==
    /\ HandledAfter(CONFIGURE, CONFIGURE)
    /\ Prev.resp = <<OK>>
    /\ Last.resp = <<OK>>
    /\ Last.pre.configuration.devices # <<>>
    /\ Last.arg.devices # <<>>
    /\ Last.arg # Last.pre.configuration
    /\ configuration = Last.arg

\* stop, then configure with a document that passes validation, then start.
StopConfigureStart ==
    /\ Len(hist) = 3
    /\ Prev2.command = STOP /\ Prev2.resp = <<OK>>
    /\ Prev.command = CONFIGURE /\ Prev.accepted
    /\ Last.command = START

\* A stop that completes keeps the stored configuration.
StopKeepsConfiguration ==
    (Handled(STOP) /\ Last.resp = <<OK>>) =>
        /\ Last.pre.started
        /\ Last.post.configuration = Last.pre.configuration
        /\ Truthy(Last.post.configuration)
        /\ ~Last.post.started

\* C9 as stated: after a stop that completes the configuration is still
\* stored, and a configure with a document that passes validation followed by
\* a start is answered OK both times and leaves started = TRUE.
C9_StopIsNotTerminal ==
    /\ StopKeepsConfiguration
    /\ StopConfigureStart =>
           /\ Prev.resp = <<OK>>
           /\ Last.resp = <<OK>>
           /\ Last.post.started

\* C9 as amended: ... the configure is answered OK, and the start is answered
\* OK and leaves started = TRUE unless it is aborted by an error that is not
\* a CommandError (a descriptor the factory cannot build a device for, or a
\* device that fails to open), in which case it is not answered and started
\* stays FALSE.
C9_StopIsNotTerminalUnlessStartAborts ==
    /\ StopKeepsConfiguration
    /\ StopConfigureStart =>
           /\ Prev.resp = <<OK>>
           /\ \/ Last.resp = <<OK>> /\ Last.error = "" /\ Last.post.started
              \/ Last.resp = <<>> /\ Last.error # "" /\ ~Last.post.started

C9_Witness ==
    /\ StopConfigureStart
    /\ Prev.resp = <<OK>>
    /\ Last.resp = <<OK>>
    /\ Last.opened # <<>>
    /\ started

\* Invocation r ran its operation to the end.
Completed(r) ==
    IF r.command = CONFIGURE
    THEN ~r.pre.started /\ SchemaAccepts(r.arg) /\ r.post.configuration = r.arg
    ELSE IF r.command = START
    THEN /\ Truthy(r.pre.configuration)
         /\ Names(r.opened) = Names(r.pre.configuration.devices)
         /\ r.post.devices = r.opened
         /\ r.post.started
    ELSE /\ r.command = STOP
         /\ r.pre.started
         /\ r.closed = Reverse(r.pre.devices)
         /\ r.post.devices = <<>>
         /\ ~r.post.started

\* Invocation r ended in a CommandError with response code `code`.
Refused(r, code) ==
    /\ Untouched(r)
    /\ r.opened = <<>>
    /\ r.closed = <<>>
    /\ IF r.command = CONFIGURE
       THEN code = (IF r.pre.started THEN ALREADY_STARTED ELSE INVALID_CONFIGURATION)
       ELSE IF r.command = START THEN code = NOT_CONFIGURED
       ELSE r.command = STOP /\ code = NOT_STARTED

\* What C10 says of the response an invocation delivers.
ResponseTellsOutcome(r) ==
    /\ r.resp = <<OK>> => Completed(r)
    /\ (Len(r.resp) = 1 /\ r.resp # <<OK>>) => Refused(r, r.resp[1])

\* No response is delivered while the operation is still running.
NoEarlyResponse == \A s \in Slots : tasks[s].resp = <<>>

\* C10 as stated: every invocation delivers exactly one response, after its
\* operation has finished: OK when it succeeded, the failure code when it
\* raised a CommandError.
C10_ExactlyOneResponse ==
    /\ NoEarlyResponse
    /\ hist # <<>> => (Len(Last.resp) = 1 /\ ResponseTellsOutcome(Last))

\* C10 as amended: every invocation whose operation returns or raises a
\* CommandError delivers exactly one response, after its operation has
\* finished: OK when it returned, the failure code when it raised; an
\* invocation that ends in any other error delivers none.
C10_ExactlyOneResponseUnlessAborted ==
    /\ NoEarlyResponse
    /\ hist # <<>> =>
           /\ Last.error = "" => Len(Last.resp) = 1
           /\ Last.error # "" => Last.resp = <<>>
           /\ ResponseTellsOutcome(Last)

C10_Witness ==
    /\ Handled(START)
    /\ Last.resp = <<OK>>
    /\ Len(Last.opened) = 2
    /\ Last.pre.started = FALSE

\* The _get_device call made on its own has ended; it returned a device.
FactoryCalled == factory.pc \in {"built", "raised", "read"}
FactoryBuilt == factory.pc \in {"built", "read"}

\* The descriptor names a known sensor type and carries what that needs.
SensorResolves(dc) ==
    /\ dc.sensor_type \in {"HX85A", "HX85BA", "TEMPERATURE", "WIND"}
    /\ dc.sensor_type = "TEMPERATURE" => "channels" \in dc.keys

\* The descriptor is FTDI or SERIAL and carries the address field of its own
\* device type and not that of the other.
OwnAddressOnly(dc) ==
    \/ dc.device_type = "FTDI" /\ "ftdi_id" \in dc.keys /\ "serial_port" \notin dc.keys
    \/ dc.device_type = "SERIAL" /\ "serial_port" \in dc.keys /\ "ftdi_id" \notin dc.keys

\* C11: with simulation on, _get_device builds a mock device for every
\* descriptor that passes validation, FTDI or SERIAL with its own address
\* field only, on every host: it never fails and never builds a real
\* transport device.  The code reads ftdi_id for the mock device, which a
\* SERIAL descriptor does not carry.
C11_SimulationAlwaysBuildsMockDevice ==
    (simulation_mode = 1 /\ FactoryCalled /\ SensorResolves(factory.dc)
        /\ OwnAddressOnly(factory.dc)) =>
        /\ FactoryBuilt
        /\ factory.device.class = "MockDevice"

\* With simulation off, no transport device exists for this device type on
\* this host.
Unsupported(dc) ==
    /\ simulation_mode = 0
    /\ dc.device_type # "FTDI"
    /\ ~(dc.device_type = "SERIAL" /\ aarch64)

UnknownSensorType(dc) == dc.sensor_type \notin {"HX85A", "HX85BA", "TEMPERATURE", "WIND"}

\* Invocation r is a start that came to build a device for a descriptor with
\* an unknown sensor type or an unsupported device type / host combination.
StartMetFatalDescriptor(r) ==
    /\ r.command = START
    /\ Truthy(r.pre.configuration)
    /\ Len(r.opened) < Len(r.pre.configuration.devices)
    /\ LET dc == r.pre.configuration.devices[Len(r.opened) + 1]
       IN UnknownSensorType(dc) \/ Unsupported(dc)

\* C12: an invocation with a command name outside configure/start/stop, and a
\* start that meets an unknown sensor type or an unsupported device type /
\* host combination, deliver no response (neither while running nor at the
\* end) and end with the error propagating to the caller.
C12_FatalErrorsPropagateWithoutResponse ==
    /\ NoEarlyResponse
    /\ hist # <<>> =>
           /\ Last.command = UNKNOWN =>
                  (Last.resp = <<>> /\ Last.error = "KeyError")
           /\ StartMetFatalDescriptor(Last) =>
                  (Last.resp = <<>> /\ Last.error = "RuntimeError")
           /\ Last.error \in {"KeyError", "RuntimeError"} => Last.resp = <<>>

C12_Witness ==
    /\ Handled(START)
    /\ StartMetFatalDescriptor(Last)
    /\ Len(Last.opened) = 1
    /\ Unsupported(Last.pre.configuration.devices[2])
    /\ Last.error = "RuntimeError"

\* The channel values of a telemetry reply.
ChannelValues(reply) == SubSeq(reply, 4, Len(reply))

NoCommandYet == hist = <<>> /\ Idle

\* C14: construction with a simulation mode outside {0, 1} fails, and then no
\* command is ever issued; with a mode in {0, 1} it succeeds and the handler
\* starts with no configuration, started = FALSE and an empty device list.
C14_InvalidSimulationModeFailsConstruction ==
    /\ handler # "new" => (handler = "ValueError" <=> simulation_mode \notin {0, 1})
    /\ handler # "ready" => NoCommandYet
    /\ (handler = "ready" /\ NoCommandYet) =>
           /\ configuration = None
           /\ started = FALSE
           /\ devices = <<>>

C14_Witness ==
    /\ handler = "ValueError"
    /\ simulation_mode = 2

\* What C15 says the factory does with simulation off, from the declared
\* device type and the host capability alone.
SelectedByTypeAndHost ==
    IF factory.dc.device_type = "FTDI"
    THEN FactoryBuilt /\ factory.device.class = "VcpFtdi"
    ELSE IF factory.dc.device_type = "SERIAL" /\ aarch64
    THEN FactoryBuilt /\ factory.device.class = "RpiSerialHat"
    ELSE /\ ~FactoryBuilt
         /\ factory.error = "RuntimeError"
         /\ factory.device = NoDevice

\* The descriptor carries the address field of its declared device type.
CarriesAddress(dc) ==
    /\ dc.device_type = "FTDI" => "ftdi_id" \in dc.keys
    /\ dc.device_type = "SERIAL" => "serial_port" \in dc.keys

\* C15 as stated: with simulation off the result of _get_device is a function
\* of the declared device type and the host capability only: FTDI gives the
\* FTDI-transport device on any host, SERIAL the serial-transport device on a
\* host with serial hardware, every other combination fails fatally and
\* constructs no device.
C15_FactoryDependsOnTypeAndHostOnly ==
    (simulation_mode = 0 /\ FactoryCalled) => SelectedByTypeAndHost

\* C15 as amended: the same, for the descriptors whose sensor type resolves
\* to a sensor and that carry the address field of their device type.
C15_FactoryDependsOnTypeAndHostOnceSensorResolves ==
    (simulation_mode = 0 /\ FactoryCalled /\ SensorResolves(factory.dc)
        /\ CarriesAddress(factory.dc)) => SelectedByTypeAndHost

C15_Witness ==
    /\ simulation_mode = 0
    /\ FactoryCalled
    /\ SensorResolves(factory.dc)
    /\ factory.dc.device_type = "SERIAL"
    /\ "serial_port" \in factory.dc.keys
    /\ ~aarch64
    /\ factory.error = "RuntimeError"

\* The command of the invocation that takes the step, when calls are made
\* one at a time: the one in flight before or after the step, or else the
\* one that began and ended within it.
ActingCommand ==
    IF ~Idle THEN tasks[CHOOSE s \in Slots : tasks[s].pc # "idle"].command
    ELSE IF \E s \in Slots : tasks'[s].pc # "idle"
    THEN tasks'[CHOOSE s \in Slots : tasks'[s].pc # "idle"].command
    ELSE hist'[Len(hist')].command

\* What one step of a command may change.
KeepsToItsOwnState ==
    /\ ActingCommand = CONFIGURE => UNCHANGED <<started, devices, open_devices>>
    /\ ActingCommand \in {START, STOP} => UNCHANGED configuration
    /\ Elements(open_devices') \ Elements(open_devices) # {} => ActingCommand = START
    /\ Elements(open_devices) \ Elements(open_devices') # {} => ActingCommand = STOP

AnsweredAsIfAlone(r) ==
    /\ (r.command = START /\ r.resp = <<OK>>) =>
           /\ r.post.started
           /\ Names(r.post.devices) = Names(r.post.configuration.devices)
    /\ (r.command = STOP /\ r.resp = <<OK>>) =>
           /\ ~r.post.started
           /\ r.post.devices = <<>>

\* C17: when handle_command is called while an earlier call is suspended at
\* a device open or close, the states and responses are those of a
\* one-at-a-time execution: a start answered OK leaves the device list built
\* from the stored configuration, a stop answered OK leaves the handler
\* stopped with an empty device list.  The code does not serialize the
\* calls: a configure is accepted while a start is suspended.
C17_OverlappingCallsAreSerialized ==
    hist # <<>> => AnsweredAsIfAlone(Last)

\* C18: no device is leaked by commands made one at a time: when a start has
\* been answered OK (one issued while already started included), every device
\* that is open is an element of the device list, so that a stop closes it.
\* The code's start does not test self._started and replaces the device list
\* without closing the devices it held.
C18_NoDeviceIsLeaked ==
    (Idle /\ Handled(START) /\ Last.resp = <<OK>>) =>
        Elements(open_devices) \subseteq Elements(devices)

\* C19: whenever started = TRUE and no command is in flight, the device list
\* corresponds one to one and in order to the descriptors of the stored
\* configuration.  The code lets a start run while started; when that start
\* is aborted by a fatal error, started stays TRUE over a device list that
\* is only part of the configuration.
C19_StartedDeviceListMatchesConfiguration ==
    (Idle /\ started) => Names(devices) = Names(configuration.devices)

\* Invocation r is a stop in which a device.close() raised.
CloseFailed(r) == r.command = STOP /\ r.error = "CloseError"

\* The devices a stop leaves in the list when the close after Len(r.closed)
\* successful ones failed: those before the failing one.
LeftByFailedStop(r) == SubSeq(r.pre.devices, 1, Len(r.pre.devices) - Len(r.closed) - 1)

\* C20: when closing a device raises during stop, the stop ends there with
\* no response: started is FALSE, the failing device and those closed before
\* it are out of the device list, the devices before it in the list are
\* still in it and were not closed.  After it a stop is answered
\* NOT_STARTED, a valid configure is answered OK and stored, and a start is
\* not refused.
C20_FailedCloseAbortsStop ==
    /\ (hist # <<>> /\ CloseFailed(Last)) =>
           /\ Last.resp = <<>>
           /\ ~Last.post.started
           /\ Last.post.devices = LeftByFailedStop(Last)
           /\ Elements(Last.closed) \cap Elements(Last.post.devices) = {}
           /\ Idle => (/\ ~started
                       /\ devices = LeftByFailedStop(Last)
                       /\ \A d \in Elements(devices) :
                              d \in Elements(Last.pre.devices) /\ d \notin Elements(Last.closed))
    /\ (Len(hist) >= 2 /\ CloseFailed(Prev)) =>
           /\ Last.command = STOP => Last.resp = <<NOT_STARTED>>
           /\ (Last.command = CONFIGURE /\ SchemaAccepts(Last.arg)) =>
                  (Last.resp = <<OK>> /\ Last.post.configuration = Last.arg)
           /\ Last.command = START =>
                  /\ Last.resp # <<NOT_CONFIGURED>>
                  /\ Last.error = "" => (Last.resp = <<OK>> /\ Last.post.started)

C20_Witness ==
    /\ Idle
    /\ Handled(STOP)
    /\ CloseFailed(Last)
    /\ Len(Last.pre.devices) = 2
    /\ Last.closed = <<>>
    /\ Len(devices) = 1
    /\ devices[1] \in Elements(open_devices)

====
